---- MODULE Spec2Model ----
(***************************************************************************)
(* Model of the IDS peak camera adapter (IDSPeak.cpp / IDSPeak.h): the     *)
(* sequence-acquisition worker (MySequenceThread), the foreground camera   *)
(* calls (StartSequenceAcquisition, StopSequenceAcquisition, SnapImage,    *)
(* GetImageBuffer, SetROI, ClearROI, SetMultiROI, GetROI, GetMultiROI,     *)
(* OnBinning, SetBinning, SetExposure) and the state they share.           *)
(*                                                                         *)
(* Numbers that are doubles in the code are kept exactly: a duration or an *)
(* exposure is an integer count of hundredths of the unit the code holds   *)
(* it in, a frame rate is a fraction [n, d] in Hz.  Unsigned values wrap   *)
(* as in the code, at a word of WordBits bits.                             *)
(***************************************************************************)
EXTENDS Integers, Sequences, FiniteSets, TLC

\* ------------------------------------------------------------------ bounds
\* Largest finite frame count a start may request.
MaxN == 2
\* Number of accepted starts (activations of the worker thread) explored.
MaxRuns == 2
\* Number of worker threads that may exist at once (a thread that has returned
\* from svc no longer exists).
MaxWorkers == 2

\* Beside a running acquisition, binning changes are explored while img_ is
\* within this factor of the sensor size.
MaxSeqLen == 3
MaxScale == 2

\* ------------------------------------------------------- program constants
\* The count that asks for a continuous run.
LONG_MAX == 2147483647
\* Width of an unsigned in the model; unsigned arithmetic wraps modulo 2^WordBits.
WordBits == 16
UINT_MAX == 2^WordBits - 1
U32(v) == v % (2^WordBits)
\* The interval is kept at least this much above the exposure (0.5, in hundredths).
GuardTime == 50

\* Frame counts a caller may request: finite ones and the continuous one.
Counts == (0..MaxN) \cup {LONG_MAX}
\* The start requests explored, <<numImages, interval_ms, stopOnOverflow>>: every
\* count, with the interval (in hundredths of a millisecond) and the overflow
\* flag alternating with it.
StartRequests == {<<n, IF n % 2 = 0 THEN 0 ELSE 10000, n % 2 = 1>> : n \in Counts}
\* A continuous run is explored up to this many loop iterations.
FrameCap == MaxN
Workers == 1..MaxWorkers

\* Device-reported sensor geometry (getSensorInfo, peak_ROI_Size_GetRange).
SensorConfigs == {[ccdX |-> 8, ccdY |-> 8, inc |-> 2, minX |-> 2, minY |-> 2]}
\* SetROI requests explored by the acquisition specification.
RoiRequests == {<<0, 0, 0, 0>>, <<2, 2, 4, 4>>, <<6, 6, 5, 5>>}
\* SetMultiROI requests explored by the acquisition specification.
MultiRoiRequests == {<<>>, <<[x |-> 1, y |-> 1, w |-> 2, h |-> 2], [x |-> 4, y |-> 3, w |-> 2, h |-> 3]>>}

\* Sensors explored by the geometry specification.
Sensor8 == [ccdX |-> 8, ccdY |-> 8, inc |-> 2, minX |-> 2, minY |-> 2]
Sensor512 == [ccdX |-> 512, ccdY |-> 512, inc |-> 4, minX |-> 16, minY |-> 16]
GeomSensorConfigs == {Sensor8, Sensor512}
\* SetROI requests explored by the geometry specification, <<x, y, xSize, ySize>>.
GeomRoiRequests ==
    {<<0, 0, 0, 0>>, <<2, 2, 4, 4>>, <<10, 10, 18, 18>>, <<500, 500, 100, 100>>,
     <<0, 0, 600, 600>>, <<3, 1, 0, 7>>}
\* SetMultiROI requests explored by the geometry specification.
GeomMultiRoiRequests ==
    {<<>>,
     <<[x |-> 4, y |-> 2, w |-> 2, h |-> 4]>>,
     <<[x |-> 1, y |-> 1, w |-> 2, h |-> 2], [x |-> 4, y |-> 3, w |-> 2, h |-> 3]>>,
     <<[x |-> 4, y |-> 3, w |-> 2, h |-> 3], [x |-> 1, y |-> 1, w |-> 2, h |-> 2]>>}

\* The camera's exposure range after Initialize: minimum, maximum and
\* increment, in hundredths of a millisecond.
ExposureRange == [min |-> 50, max |-> 2000, inc |-> 50]
\* SetExposure requests explored (hundredths of a millisecond).
ExposureRequests == {0, 120, 3000}
\* Exposure ranges of the frame-rate specification: 0.5..20 ms in steps of
\* 0.5 ms, 0.1..1000 ms in steps of 0.1 ms, and 0.3..20.3 ms in steps of 0.5 ms.
ExposureRanges ==
    {ExposureRange, [min |-> 10, max |-> 100000, inc |-> 10], [min |-> 30, max |-> 2030, inc |-> 50]}
\* SetExposure requests of the frame-rate specification (hundredths of a
\* millisecond).
FineExposureRequests == {3, 120, 2010, 3000}
\* Exposure times added to the exposure sequence (hundredths of a millisecond).
SequenceExposures == {200, 500}
\* What a read of exposureSequence_ past its end may give.
StrayReads == {0, 200, 999}
\* Exposure times the camera may hold when Initialize reads it (hundredths of
\* a millisecond).
InitialExposures == {100, 1000}
\* Frame intervals requested in the frame-rate specification (hundredths of a
\* millisecond): none, 100 ms and 2 s.
RateIntervals == {0, 10000, 200000}
\* The binning factors the camera lists, which are the allowed values of the
\* Binning property.
BinningFactors == {1, 2}
\* Frame-rate ranges (Hz, as fractions) the camera may report after a binning
\* change.
FrameRateLimits ==
    {[min |-> [n |-> 1, d |-> 1], max |-> [n |-> 200, d |-> 1]],
     [min |-> [n |-> 2, d |-> 1], max |-> [n |-> 400, d |-> 1]]}

VARIABLES
    stop_,              \* MySequenceThread::stop_
    numImages_,         \* MySequenceThread::numImages_
    intervalMs_,        \* MySequenceThread::intervalMs_
    thdImageCounter_,   \* MySequenceThread::imageCounter_
    latest,             \* the thread created by the latest activate(); 0 before the first
    wk,                 \* per thread: position and locals of svc
    run,                \* record of the latest thread's run
    imageCounter_,      \* CIDSPeak::imageCounter_
    sequenceStartTime_, \* CIDSPeak::sequenceStartTime_
    stopOnOverflow_,    \* CIDSPeak::stopOnOverflow_
    exposureCur_,       \* CIDSPeak::exposureCur_ (hundredths)
    framerateCur_,      \* CIDSPeak::framerateCur_ (fraction, Hz)
    framerateMax_,      \* CIDSPeak::framerateMax_ (fraction, Hz)
    devExposure,        \* the camera's ExposureTime (hundredths of a microsecond)
    framerateMin_,      \* CIDSPeak::framerateMin_ (fraction, Hz)
    exposureLimits,     \* exposureMin_, exposureMax_, exposureInc_ (hundredths of a ms)
    sequencer,          \* exposureSequence_, sequenceIndex_, sequenceRunning_, isSequenceable_
    geom,               \* roiX_, roiY_, img_ width/height, multi-ROI vectors, binSize_
    sensor,             \* cameraCCDXSize_, cameraCCDYSize_, roiInc_, roiMinSizeX_/Y_
    imgWriter,          \* who last copied frame data into img_
    clock,              \* GetCurrentMMTime()
    fg,                 \* position of the foreground caller
    lastCall,           \* the foreground call that last returned, and what it did
    suspend_,           \* MySequenceThread::suspend_
    lockOwner,          \* the thread inside a guard of stopLock_, suspendLock_, imgPixelsLock_
    thr,                \* per thread: the steps left of the call it is in
    access              \* the latest read or write of stop_ or suspend_

threadVars == <<stop_, numImages_, intervalMs_, thdImageCounter_, latest, wk, run>>
seqVars == <<imageCounter_, sequenceStartTime_, stopOnOverflow_, clock>>
rateVars == <<exposureCur_, framerateCur_, framerateMax_, devExposure, framerateMin_,
              exposureLimits, sequencer>>
geomVars == <<geom, sensor>>
lockVars == <<suspend_, lockOwner, thr, access>>
vars == <<threadVars, seqVars, rateVars, geomVars, imgWriter, fg, lastCall, lockVars>>

\* ------------------------------------------------------------ rate governor
Rat(n, d) == [n |-> n, d |-> d]
RatLess(a, b) == a.n * b.d < b.n * a.d

\* framerateSet without the raise of the interval to exposureCur_ + 0.5.
framerateSet_NoGuard(interval) ==
    LET i1 == interval
        r1 == Rat(1000 * 100, i1)
    IN IF RatLess(framerateMax_, r1) THEN framerateMax_ ELSE r1

\* framerateSet(interval_ms): the frame rate it computes and stores.
framerateSet(interval) ==
    LET i1 == IF interval < exposureCur_ + GuardTime THEN exposureCur_ + GuardTime ELSE interval
        r1 == Rat(1000 * 100, i1)
    IN IF RatLess(framerateMax_, r1) THEN framerateMax_ ELSE r1

\* ---------------------------------------------------------------- geometry
\* ResizeImageBuffer without the division by the binning.
ResizeImageBuffer_NoBinning(g) ==
    [g EXCEPT !.imgW = sensor.ccdX, !.imgH = sensor.ccdY]

\* ResizeImageBuffer(): img_ takes the sensor size divided by the binning.
ResizeImageBuffer(g) ==
    [g EXCEPT !.imgW = sensor.ccdX \div g.binSize_, !.imgH = sensor.ccdY \div g.binSize_]

\* SetROI without the cut of the size to a multiple of roiInc_.
SetROIApply_NoIncrement(g, x, y, xSize, ySize, propOk, roiOk) ==
    LET cleared == [g EXCEPT !.multiROI = <<>>]
        pushed == IF roiOk THEN {"ROI_Set"} ELSE {"ROI_Set", "ROI_Set_refused"}
    IN IF xSize = 0 /\ ySize = 0
       THEN IF propOk
            THEN [ret |-> "DEVICE_OK",
                  g |-> [ResizeImageBuffer(cleared) EXCEPT !.roiX_ = 0, !.roiY_ = 0],
                  dev |-> pushed]
            ELSE [ret |-> "DEVICE_ERR", g |-> cleared, dev |-> {}]
       ELSE LET w1 == IF xSize < sensor.minX THEN sensor.minX ELSE xSize
                h1 == IF ySize < sensor.minY THEN sensor.minY ELSE ySize
                x1 == IF U32(x + w1) > sensor.ccdX THEN U32(sensor.ccdX - w1) ELSE x
                y1 == IF U32(y + h1) > sensor.ccdY THEN U32(sensor.ccdY - h1) ELSE y
            IN [ret |-> "DEVICE_OK",
                g |-> [cleared EXCEPT !.imgW = w1, !.imgH = h1, !.roiX_ = x1, !.roiY_ = y1],
                dev |-> pushed]

\* SetROI without the clear() of the four multi-ROI vectors.
SetROIApply_NoClear(g, x, y, xSize, ySize, propOk, roiOk) ==
    LET cleared == g
        pushed == IF roiOk THEN {"ROI_Set"} ELSE {"ROI_Set", "ROI_Set_refused"}
    IN IF xSize = 0 /\ ySize = 0
       THEN IF propOk
            THEN [ret |-> "DEVICE_OK",
                  g |-> [ResizeImageBuffer(cleared) EXCEPT !.roiX_ = 0, !.roiY_ = 0],
                  dev |-> pushed]
            ELSE [ret |-> "DEVICE_ERR", g |-> cleared, dev |-> {}]
       ELSE LET w1 == IF xSize < sensor.minX THEN sensor.minX ELSE xSize
                h1 == IF ySize < sensor.minY THEN sensor.minY ELSE ySize
                w2 == w1 - (w1 % sensor.inc)
                h2 == h1 - (h1 % sensor.inc)
                x1 == IF U32(x + w2) > sensor.ccdX THEN U32(sensor.ccdX - w2) ELSE x
                y1 == IF U32(y + h2) > sensor.ccdY THEN U32(sensor.ccdY - h2) ELSE y
            IN [ret |-> "DEVICE_OK",
                g |-> [cleared EXCEPT !.imgW = w2, !.imgH = h2, !.roiX_ = x1, !.roiY_ = y1],
                dev |-> pushed]

\* SetROI(x, y, xSize, ySize) with the ROI feature writable; propOk is the
\* result of reading the Binning property in ResizeImageBuffer, roiOk whether
\* the camera accepts peak_ROI_Set (its status is stored and not looked at).
SetROIApply(g, x, y, xSize, ySize, propOk, roiOk) ==
    LET cleared == [g EXCEPT !.multiROI = <<>>]
        pushed == IF roiOk THEN {"ROI_Set"} ELSE {"ROI_Set", "ROI_Set_refused"}
    IN IF xSize = 0 /\ ySize = 0
       THEN IF propOk
            THEN [ret |-> "DEVICE_OK",
                  g |-> [ResizeImageBuffer(cleared) EXCEPT !.roiX_ = 0, !.roiY_ = 0],
                  dev |-> pushed]
            ELSE [ret |-> "DEVICE_ERR", g |-> cleared, dev |-> {}]
       ELSE LET w1 == IF xSize < sensor.minX THEN sensor.minX ELSE xSize
                h1 == IF ySize < sensor.minY THEN sensor.minY ELSE ySize
                w2 == w1 - (w1 % sensor.inc)
                h2 == h1 - (h1 % sensor.inc)
                x1 == IF U32(x + w2) > sensor.ccdX THEN U32(sensor.ccdX - w2) ELSE x
                y1 == IF U32(y + h2) > sensor.ccdY THEN U32(sensor.ccdY - h2) ELSE y
            IN [ret |-> "DEVICE_OK",
                g |-> [cleared EXCEPT !.imgW = w2, !.imgH = h2, !.roiX_ = x1, !.roiY_ = y1],
                dev |-> pushed]

\* GetROI(x, y, xSize, ySize): the rectangle it reports.
GetROI(g) == [x |-> g.roiX_, y |-> g.roiY_, xSize |-> g.imgW, ySize |-> g.imgH]

\* IsMultiROISet(): multiROIXs_.size() > 0.
IsMultiROISet(g) == Len(g.multiROI) > 0

\* GetMultiROICount(count): the count written; the call returns DEVICE_OK.
GetMultiROICount(g) == Len(g.multiROI)

\* The loop of SetMultiROI over the rectangles: running minima and maxima.
RECURSIVE BoundsOf(_, _)
BoundsOf(rects, acc) ==
    IF rects = <<>> THEN acc
    ELSE LET r == Head(rects)
         IN BoundsOf(Tail(rects),
                [minX |-> IF acc.minX > r.x THEN r.x ELSE acc.minX,
                 minY |-> IF acc.minY > r.y THEN r.y ELSE acc.minY,
                 maxX |-> IF U32(r.x + r.w) > acc.maxX THEN U32(r.x + r.w) ELSE acc.maxX,
                 maxY |-> IF U32(r.y + r.h) > acc.maxY THEN U32(r.y + r.h) ELSE acc.maxY])

\* The push_back calls of the loop of SetMultiROI: entry i of the four vectors
\* multiROIXs_, multiROIYs_, multiROIWidths_, multiROIHeights_ is kept as one
\* record, appended to what the vectors hold.
RECURSIVE PushRects(_, _)
PushRects(stored, rects) ==
    IF rects = <<>> THEN stored
    ELSE LET r == Head(rects)
         IN PushRects(Append(stored, [x |-> r.x, y |-> r.y, w |-> r.w, h |-> r.h]), Tail(rects))

\* SetMultiROI without the clear() of the four vectors.
SetMultiROIApply_NoClear(g, rects) ==
    LET b == BoundsOf(rects, [minX |-> UINT_MAX, minY |-> UINT_MAX, maxX |-> 0, maxY |-> 0])
    IN [g EXCEPT !.multiROI = PushRects(g.multiROI, rects),
                 !.imgW = U32(b.maxX - b.minX), !.imgH = U32(b.maxY - b.minY),
                 !.roiX_ = b.minX, !.roiY_ = b.minY]

\* SetMultiROI(xs, ys, widths, heights, numROIs)
SetMultiROIApply(g, rects) ==
    LET b == BoundsOf(rects, [minX |-> UINT_MAX, minY |-> UINT_MAX, maxX |-> 0, maxY |-> 0])
    IN [g EXCEPT !.multiROI = PushRects(<<>>, rects),
                 !.imgW = U32(b.maxX - b.minX), !.imgH = U32(b.maxY - b.minY),
                 !.roiX_ = b.minX, !.roiY_ = b.minY]

\* GetMultiROI(xs, ys, widths, heights, length): the value returned, the
\* rectangles written to the caller's arrays and the length written back.
RECURSIVE CopyRects(_, _, _)
CopyRects(g, i, out) ==
    IF i > Len(g.multiROI) THEN out
    ELSE CopyRects(g, i + 1, Append(out, [x |-> g.multiROI[i].x, y |-> g.multiROI[i].y,
                                          w |-> g.multiROI[i].w, h |-> g.multiROI[i].h]))

GetMultiROI(g, length) ==
    IF Len(g.multiROI) > length
    THEN [ret |-> "DEVICE_INTERNAL_INCONSISTENCY", rects |-> <<>>, length |-> length]
    ELSE [ret |-> "DEVICE_OK", rects |-> CopyRects(g, 1, <<>>), length |-> Len(g.multiROI)]

\* OnBinning: (unsigned int)(v / factor) with factor = binFactor / binSize_.
Rescale(v, binSize, binFactor) == U32((v * binSize) \div binFactor)

RECURSIVE RescaleRects(_, _, _)
RescaleRects(rects, binSize, binFactor) ==
    IF rects = <<>> THEN <<>>
    ELSE LET r == Head(rects)
         IN <<[x |-> Rescale(r.x, binSize, binFactor), y |-> Rescale(r.y, binSize, binFactor),
               w |-> Rescale(r.w, binSize, binFactor), h |-> Rescale(r.h, binSize, binFactor)]>>
            \o RescaleRects(Tail(rects), binSize, binFactor)

\* OnBinning, AfterSet, past the busy check: the geometry rescaled from the
\* previous binning to binFactor.
OnBinningApply(g, binFactor) ==
    IF binFactor > 0 /\ binFactor < 10
    THEN [ret |-> "DEVICE_OK",
          g |-> [roiX_ |-> Rescale(g.roiX_, g.binSize_, binFactor),
                 roiY_ |-> Rescale(g.roiY_, g.binSize_, binFactor),
                 multiROI |-> RescaleRects(g.multiROI, g.binSize_, binFactor),
                 imgW |-> Rescale(g.imgW, g.binSize_, binFactor),
                 imgH |-> Rescale(g.imgH, g.binSize_, binFactor),
                 binSize_ |-> binFactor]]
    ELSE [ret |-> "DEVICE_ERR", g |-> g]

\* ------------------------------------------------- locks and flag accesses
\* The three MMThreadLock objects.
Locks == {"stopLock_", "suspendLock_", "imgPixelsLock_"}
\* The thread that calls the camera's methods, and the svc threads.
ForegroundThread == 0
Threads == {ForegroundThread} \cup Workers
\* The owner of a lock no thread is inside a guard of.
NoThread == -1

\* One step of a call: i is what it does, a the lock, the flag or the branch.
Ins(i, a) == [i |-> i, a |-> a]
\* MMThreadGuard g(l) at the top of a function whose remaining steps are body;
\* the guard's destructor releases l where the function returns.
Guarded(l, body) == <<Ins("acquire", l)>> \o body \o <<Ins("release", l)>>

\* A thread that is in no call: prog the steps left, r the flag value it last
\* read, target the thread its latest activate() created.
NoSteps == [prog |-> <<>>, r |-> FALSE, target |-> ForegroundThread]
\* No flag access yet: held is the set of locks the accessing thread owned.
NoAccess == [flag |-> "none", kind |-> "none", by |-> NoThread, held |-> {}]

\* MySequenceThread::Stop()
StopSteps == Guarded("stopLock_", <<Ins("set", "stop_")>>)
\* MySequenceThread::IsStopped()
IsStoppedSteps == Guarded("stopLock_", <<Ins("read", "stop_")>>)
\* MySequenceThread::Start(): g1 on stopLock_, g2 on suspendLock_, both flags
\* cleared and activate() called inside both guards.
StartSteps ==
    Guarded("stopLock_",
            Guarded("suspendLock_",
                    <<Ins("clear", "stop_"), Ins("clear", "suspend_"), Ins("activate", "svc")>>))
\* MySequenceThread::Suspend(), IsSuspended(), Resume()
SuspendSteps == Guarded("suspendLock_", <<Ins("set", "suspend_")>>)
IsSuspendedSteps == Guarded("suspendLock_", <<Ins("read", "suspend_")>>)
ResumeSteps == Guarded("suspendLock_", <<Ins("clear", "suspend_")>>)
\* CIDSPeak::GetImageBuffer(): the readout wait inside the guard.
GetImageBufferSteps == Guarded("imgPixelsLock_", <<Ins("device", "readout")>>)
\* CIDSPeak::InsertImage(): the metadata, then the core's InsertImage inside
\* the guard.
InsertImageSteps ==
    <<Ins("device", "metadata")>> \o Guarded("imgPixelsLock_", <<Ins("device", "InsertImage")>>)

\* StopSequenceAcquisition with thd_->wait() called inside the guard of Stop().
StopAndWaitSteps_WaitUnderLock ==
    Guarded("stopLock_", <<Ins("set", "stop_"), Ins("wait", "svc")>>)
\* StopSequenceAcquisition, thread not stopped: thd_->Stop(); thd_->wait();
StopAndWaitSteps == StopSteps \o <<Ins("wait", "svc")>>
\* CIDSPeak::StopSequenceAcquisition()
StopSequenceAcquisitionSteps == IsStoppedSteps \o <<Ins("branch", "stopseq")>>
\* CIDSPeak::StartSequenceAcquisition(): IsCapturing(), then thd_->Start().
StartSequenceAcquisitionSteps == IsStoppedSteps \o <<Ins("branch", "startseq")>>

\* svc after the loop: if (IsStopped()) peak_Acquisition_Stop; then, past the
\* catch, stop_ = true with no guard.  OnThreadExiting() and the return touch
\* neither a flag nor a lock and end the thread with that write.
AfterLoopSteps ==
    IsStoppedSteps \o <<Ins("device", "Acquisition_Stop"), Ins("set", "stop_")>>
\* One iteration of the loop of svc: RunSequenceOnThread, then the condition.
CycleSteps ==
    <<Ins("device", "WaitForFrame")>> \o InsertImageSteps
        \o <<Ins("device", "Frame_Release"), Ins("branch", "nRet")>>
\* MySequenceThread::svc()
SvcSteps == <<Ins("device", "Acquisition_Start"), Ins("branch", "started")>>

\* The steps a thread goes on with at a branch, r being the flag value it read
\* last: every outcome the device and the frame count allow.
Branch(a, r) ==
    CASE a = "stopseq" -> IF r THEN {<<>>} ELSE {StopAndWaitSteps}
      [] a = "startseq" -> IF r THEN {<<>>, StartSteps} ELSE {<<>>}
      [] a = "started" -> {<<>>, CycleSteps}
      [] a = "nRet" -> {AfterLoopSteps, IsStoppedSteps \o <<Ins("branch", "loop")>>}
      [] a = "loop" -> IF r THEN {AfterLoopSteps} ELSE {AfterLoopSteps, CycleSteps}

\* The calls of the foreground thread.
ForegroundCalls ==
    {StartSequenceAcquisitionSteps, StopSequenceAcquisitionSteps, IsStoppedSteps,
     GetImageBufferSteps, SuspendSteps, IsSuspendedSteps, ResumeSteps}

\* What the lock-level steps leave alone.
LockFrame ==
    <<numImages_, intervalMs_, thdImageCounter_, latest, wk, run, seqVars, rateVars,
      geomVars, imgWriter, fg, lastCall>>

\* The foreground thread, in no call, begins one; a start is begun only while
\* a thread can still be created.
LockCall ==
    /\ thr[ForegroundThread].prog = <<>>
    /\ \E c \in ForegroundCalls :
          /\ c = StartSequenceAcquisitionSteps => \E w \in Workers : thr[w].prog = <<>>
          /\ thr' = [thr EXCEPT ![ForegroundThread].prog = c]
    /\ UNCHANGED <<stop_, suspend_, lockOwner, access, LockFrame>>

\* Thread t reads or writes flag f while owning the locks it owns.
Access(t, f, kind) ==
    access' = [flag |-> f, kind |-> kind, by |-> t,
               held |-> {l \in Locks : lockOwner[l] = t}]

\* Thread t takes the next step of the call it is in.  Entering a guard waits
\* until no thread owns the lock; wait() until the created thread has returned.
LockStep(t) ==
    /\ thr[t].prog # <<>>
    /\ LET h == Head(thr[t].prog)
           rest == Tail(thr[t].prog)
           flag == IF h.a = "stop_" THEN stop_ ELSE suspend_
       IN CASE h.i = "acquire" ->
                   /\ lockOwner[h.a] = NoThread
                   /\ lockOwner' = [lockOwner EXCEPT ![h.a] = t]
                   /\ thr' = [thr EXCEPT ![t].prog = rest]
                   /\ UNCHANGED <<stop_, suspend_, access>>
            [] h.i = "release" ->
                   /\ lockOwner' = [lockOwner EXCEPT ![h.a] = NoThread]
                   /\ thr' = [thr EXCEPT ![t].prog = rest]
                   /\ UNCHANGED <<stop_, suspend_, access>>
            [] h.i = "read" ->
                   /\ thr' = [thr EXCEPT ![t].prog = rest, ![t].r = flag]
                   /\ Access(t, h.a, "read")
                   /\ UNCHANGED <<stop_, suspend_, lockOwner>>
            [] h.i \in {"set", "clear"} ->
                   /\ IF h.a = "stop_"
                      THEN stop_' = (h.i = "set") /\ UNCHANGED suspend_
                      ELSE suspend_' = (h.i = "set") /\ UNCHANGED stop_
                   /\ thr' = [thr EXCEPT ![t].prog = rest]
                   /\ Access(t, h.a, "write")
                   /\ UNCHANGED lockOwner
            [] h.i = "activate" ->
                   /\ \E w \in Workers :
                         /\ thr[w].prog = <<>>
                         /\ \A v \in Workers : v < w => thr[v].prog # <<>>
                         /\ thr' = [thr EXCEPT ![t].prog = rest, ![t].target = w,
                                                ![w].prog = SvcSteps]
                   /\ UNCHANGED <<stop_, suspend_, lockOwner, access>>
            [] h.i = "wait" ->
                   /\ thr[thr[t].target].prog = <<>>
                   /\ thr' = [thr EXCEPT ![t].prog = rest]
                   /\ UNCHANGED <<stop_, suspend_, lockOwner, access>>
            [] h.i = "device" ->
                   /\ thr' = [thr EXCEPT ![t].prog = rest]
                   /\ UNCHANGED <<stop_, suspend_, lockOwner, access>>
            [] h.i = "branch" ->
                   /\ \E c \in Branch(h.a, thr[t].r) :
                         thr' = [thr EXCEPT ![t].prog = c \o rest]
                   /\ UNCHANGED <<stop_, suspend_, lockOwner, access>>
    /\ UNCHANGED LockFrame

LockSteps == \E t \in Threads : LockStep(t)

\* ------------------------------------------------------------- thread state
IsStopped == stop_
IsCapturing == ~IsStopped

NoCall == [op |-> "none", ret |-> "DEVICE_OK", running |-> FALSE, dev |-> {}, bufWrite |-> FALSE]
Call(op, ret, dev, bufWrite) ==
    [op |-> op, ret |-> ret, running |-> IsCapturing, dev |-> dev, bufWrite |-> bufWrite]

\* A worker thread that does not exist (not created yet, or returned from svc
\* before the latest start).  pc is the position in svc, nRet its local, ret
\* the value svc returned, fin the number of calls of OnThreadExiting, held
\* whether hFrame is a handle from WaitForFrame not yet given to
\* peak_Frame_Release, exitStopped whether stop_ was set when the loop ended
\* on its condition, ins the call of InsertImage whose result the cycle has
\* not yet acted on, awb the call of updateAutoWhiteBalance that ended the
\* cycle: the cached white-balance mode at the call and whether the gains were
\* read from the device.
NoAwb == [mode |-> "none", gains |-> FALSE]
NoInsert == [soo |-> FALSE, first |-> "none", second |-> "none", ret |-> "none", core |-> <<>>]

IdleWorker ==
    [pc |-> "idle", nRet |-> "DEVICE_ERR", ret |-> "none", fin |-> 0, held |-> FALSE,
     exitStopped |-> FALSE, ins |-> NoInsert, awb |-> NoAwb]

Live(w) == wk[w].pc \notin {"idle", "returned"}

\* What the run of the latest thread has done so far: n the count it was
\* started with, cycles the iterations whose transfer and insertion both
\* succeeded, lastWait the latest answer of WaitForFrame, timeouts the number
\* of timeouts in a row that WaitForFrame has just answered, stopCmd whether
\* peak_Acquisition_Stop was sent, stopReq whether Stop() was called during the
\* run, threw whether the catch block of svc was entered.
NoRun == [n |-> 0, cycles |-> 0, lastWait |-> "none", timeouts |-> 0, stopCmd |-> FALSE,
          stopReq |-> FALSE, threw |-> FALSE]

\* The exposure sequencer of a new camera.
NoSequence ==
    [exposureSequence_ |-> <<>>, sequenceIndex_ |-> 0, sequenceRunning_ |-> FALSE,
     isSequenceable_ |-> FALSE]

\* The state after Initialize() on a camera whose sensor is one of configs,
\* whose exposure range is one of ranges and whose exposure time is one of
\* exposures (hundredths of a millisecond) within that range.
InitFrom(configs, ranges, exposures) ==
    /\ stop_ = TRUE
    /\ numImages_ = 1
    /\ intervalMs_ = 10000
    /\ thdImageCounter_ = 0
    /\ latest = 0
    /\ wk = [w \in Workers |-> IdleWorker]
    /\ run = NoRun
    /\ imageCounter_ = 0
    /\ sequenceStartTime_ = 0
    /\ stopOnOverflow_ = FALSE
    /\ exposureLimits \in ranges
    /\ devExposure \in {e * 1000 : e \in {x \in exposures : exposureLimits.min <= x /\ x <= exposureLimits.max}}
    /\ exposureCur_ = devExposure \div 1000
    /\ framerateCur_ = Rat(10, 1)
    /\ framerateMax_ = Rat(200, 1)
    /\ framerateMin_ = Rat(1, 1)
    /\ sequencer = NoSequence
    /\ sensor \in configs
    /\ geom = [roiX_ |-> 0, roiY_ |-> 0, imgW |-> sensor.ccdX, imgH |-> sensor.ccdY,
               multiROI |-> <<>>, binSize_ |-> 1]
    /\ imgWriter = "none"
    /\ clock = 1
    /\ fg = "idle"
    /\ lastCall = NoCall
    /\ suspend_ = FALSE
    /\ lockOwner = [l \in Locks |-> NoThread]
    /\ thr = [t \in Threads |-> NoSteps]
    /\ access = NoAccess

InitWith(configs) == InitFrom(configs, {ExposureRange}, {1000})

Init == InitWith(SensorConfigs)

\* ------------------------------------------------------ foreground: start
\* MySequenceThread::Start(numImages, intervalMs): the thread object's fields
\* are reset and activate() creates the next worker thread.
ThreadStart(n, interval) ==
    /\ numImages_' = n
    /\ intervalMs_' = interval
    /\ thdImageCounter_' = 0
    /\ stop_' = FALSE
    /\ \E w \in Workers :
          /\ ~Live(w)
          /\ \A v \in Workers : v < w => Live(v)
          /\ latest' = w
          /\ wk' = [v \in Workers |-> IF v = w THEN [IdleWorker EXCEPT !.pc = "begin"]
                                      ELSE IF Live(v) THEN wk[v] ELSE IdleWorker]
    /\ run' = [NoRun EXCEPT !.n = n]

\* StartSequenceAcquisition past the busy check: framerateSet, PrepareForAcq
\* (prepOk is its result), then the new run.
StartAccepted(n, interval, soo, prepOk) ==
    /\ framerateCur_' = framerateSet(interval)
    /\ UNCHANGED <<exposureCur_, framerateMax_, devExposure, framerateMin_, exposureLimits, sequencer>>
    /\ IF ~prepOk
       THEN /\ lastCall' = Call("start", "PREPARE_FAILED", {"FrameRate_Set"}, FALSE)
            /\ UNCHANGED <<threadVars, seqVars>>
       ELSE /\ clock <= MaxRuns
            /\ sequenceStartTime_' = clock
            /\ clock' = clock + 1
            /\ imageCounter_' = 0
            /\ ThreadStart(n, interval)
            /\ stopOnOverflow_' = soo
            /\ lastCall' = Call("start", "DEVICE_OK", {"FrameRate_Set"}, FALSE)

\* StartSequenceAcquisition without its busy check.
StartSequenceAcquisition_NoBusyCheck(n, interval, soo, prepOk) ==
    /\ fg = "idle"
    /\ StartAccepted(n, interval, soo, prepOk)
    /\ UNCHANGED <<geomVars, lockVars, imgWriter, fg>>

\* CIDSPeak::StartSequenceAcquisition(numImages, interval_ms, stopOnOverflow)
StartSequenceAcquisition(n, interval, soo, prepOk) ==
    /\ fg = "idle"
    /\ IF IsCapturing
       THEN /\ lastCall' = Call("start", "DEVICE_CAMERA_BUSY_ACQUIRING", {}, FALSE)
            /\ UNCHANGED <<threadVars, seqVars, rateVars>>
       ELSE StartAccepted(n, interval, soo, prepOk)
    /\ UNCHANGED <<geomVars, lockVars, imgWriter, fg>>

\* ------------------------------------------------------- foreground: stop
\* CIDSPeak::StopSequenceAcquisition up to thd_->wait(): when the thread is not
\* stopped, Stop() sets the flag and the caller blocks in wait(); otherwise the
\* call returns at once.
StopCall ==
    /\ fg = "idle"
    /\ IF ~IsStopped
       THEN /\ stop_' = TRUE
            /\ run' = [run EXCEPT !.stopReq = Live(latest)]
            /\ fg' = "stopWait"
            /\ UNCHANGED lastCall
       ELSE /\ lastCall' = Call("stop", "DEVICE_OK", {}, FALSE)
            /\ UNCHANGED <<stop_, run, fg>>
    /\ UNCHANGED <<numImages_, intervalMs_, thdImageCounter_, latest, wk>>
    /\ UNCHANGED <<seqVars, rateVars, geomVars, lockVars, imgWriter>>

\* thd_->wait() returns once the thread created by the latest activate() has
\* returned from svc.
StopReturn ==
    /\ fg = "stopWait"
    /\ wk[latest].pc = "returned"
    /\ fg' = "idle"
    /\ lastCall' = [Call("stop", "DEVICE_OK", {}, FALSE) EXCEPT !.running = TRUE]
    /\ UNCHANGED <<threadVars, seqVars, rateVars, geomVars, lockVars, imgWriter>>

\* ------------------------------------------------------------ worker: svc
WaitResults == {"SUCCESS", "TIMEOUT", "ABORTED", "ERROR"}
InsertResults == {"DEVICE_OK", "DEVICE_BUFFER_OVERFLOW", "DEVICE_ERR", "throw"}
AwbResults == {"DEVICE_OK", "ERR_NO_READ_ACCESS", "DEVICE_ERR"}
\* peakAutoWhiteBalance_: off, or one of the automatic modes.
AwbModes == {"OFF", "CONTINUOUS"}

Set(w, r) == wk' = [wk EXCEPT ![w] = r]
\* The record of the run is written by the latest thread only.
Note(w, r) == run' = IF w = latest THEN r ELSE run
WorkerFrame == <<numImages_, intervalMs_, latest, seqVars, rateVars, geomVars, lockVars, fg, lastCall>>

\* svc: peak_Acquisition_Start; a failure returns ERR_ACQ_START from inside
\* the try block.
SvcBegin(w) ==
    /\ wk[w].pc = "begin"
    /\ \E ok \in BOOLEAN :
          Set(w, IF ok THEN [wk[w] EXCEPT !.pc = "wait"]
                 ELSE [wk[w] EXCEPT !.pc = "returned", !.ret = "ERR_ACQ_START"])
    /\ UNCHANGED <<stop_, thdImageCounter_, run, imgWriter, WorkerFrame>>

\* RunSequenceOnThread: peak_Acquisition_WaitForFrame; anything but success
\* makes the cycle return DEVICE_ERR.
RunWait(w) ==
    /\ wk[w].pc = "wait"
    /\ \E st \in WaitResults :
          /\ Set(w, IF st = "SUCCESS" THEN [wk[w] EXCEPT !.pc = "transfer", !.held = TRUE]
                    ELSE [wk[w] EXCEPT !.pc = "cond", !.nRet = "DEVICE_ERR"])
          /\ Note(w, [run EXCEPT !.lastWait = st,
                                 !.timeouts = IF st = "TIMEOUT" THEN @ + 1 ELSE 0])
    /\ UNCHANGED <<stop_, thdImageCounter_, imgWriter, WorkerFrame>>

\* Who holds imgPixelsLock_ between steps.  The worker takes it only inside
\* InsertImage, which is one step here; GetImageBuffer holds it from its first
\* line to its return.
imgPixelsLockHolder == IF fg = "getbuf" THEN "foreground" ELSE "none"

\* RunSequenceOnThread: transferBuffer(hFrame, img_) is entered, with no lock
\* taken, and its memcpy into img_ begins.
RunTransfer(w) ==
    /\ wk[w].pc = "transfer"
    /\ Set(w, [wk[w] EXCEPT !.pc = "copy"])
    /\ UNCHANGED <<stop_, thdImageCounter_, run, imgWriter, WorkerFrame>>

\* transferBuffer: the memcpy ends and the status of the frame's buffer
\* decides the result.
RunCopied(w) ==
    /\ wk[w].pc = "copy"
    /\ \E ok \in BOOLEAN :
          Set(w, IF ok THEN [wk[w] EXCEPT !.pc = "insert"]
                 ELSE [wk[w] EXCEPT !.pc = "cond", !.nRet = "DEVICE_ERR"])
    /\ imgWriter' = "worker"
    /\ UNCHANGED <<stop_, thdImageCounter_, run, WorkerFrame>>

\* InsertImage() that retries after every overflow, whatever stopOnOverflow_.
InsertImage_AlwaysRetry(first, retry) ==
    IF first = "DEVICE_BUFFER_OVERFLOW"
    THEN [soo |-> stopOnOverflow_, first |-> first, second |-> retry, ret |-> retry,
          core |-> <<"InsertImage", "ClearImageBuffer", "InsertImage">>]
    ELSE [soo |-> stopOnOverflow_, first |-> first, second |-> "none", ret |-> first,
          core |-> <<"InsertImage">>]

\* InsertImage(): the calls made to the core and the result, first and retry
\* being what the core answers to the first and to the second insertion.
InsertImage(first, retry) ==
    IF ~stopOnOverflow_ /\ first = "DEVICE_BUFFER_OVERFLOW"
    THEN [soo |-> stopOnOverflow_, first |-> first, second |-> retry, ret |-> retry,
          core |-> <<"InsertImage", "ClearImageBuffer", "InsertImage">>]
    ELSE [soo |-> stopOnOverflow_, first |-> first, second |-> "none", ret |-> first,
          core |-> <<"InsertImage">>]

\* RunSequenceOnThread: InsertImage(); an exception lands in the catch of svc.
RunInsert(w) ==
    /\ wk[w].pc = "insert"
    /\ imgPixelsLockHolder = "none"
    /\ \E first \in InsertResults, retry \in InsertResults \ {"throw"} :
          IF first = "throw"
          THEN /\ Set(w, [wk[w] EXCEPT !.pc = "setstop"])
               /\ Note(w, [run EXCEPT !.threw = TRUE])
               /\ UNCHANGED imageCounter_
          ELSE /\ imageCounter_' = imageCounter_ + 1
               /\ LET r == InsertImage(first, retry)
                  IN IF r.ret = "DEVICE_OK"
                     THEN /\ Set(w, [wk[w] EXCEPT !.pc = "release", !.ins = r])
                          /\ Note(w, [run EXCEPT !.cycles = @ + 1])
                     ELSE /\ Set(w, [wk[w] EXCEPT !.pc = "cond", !.nRet = "DEVICE_ERR",
                                                   !.ins = r])
                          /\ UNCHANGED run
    /\ UNCHANGED <<stop_, thdImageCounter_, imgWriter, numImages_, intervalMs_, latest>>
    /\ UNCHANGED <<sequenceStartTime_, stopOnOverflow_, clock, rateVars, geomVars, lockVars, fg, lastCall>>

\* RunSequenceOnThread: peak_Frame_Release.
RunRelease(w) ==
    /\ wk[w].pc = "release"
    /\ \E ok \in BOOLEAN :
          Set(w, IF ok THEN [wk[w] EXCEPT !.pc = "awb", !.held = FALSE, !.ins = NoInsert]
                 ELSE [wk[w] EXCEPT !.pc = "cond", !.nRet = "DEVICE_ERR", !.held = FALSE,
                                    !.ins = NoInsert])
    /\ UNCHANGED <<stop_, thdImageCounter_, run, imgWriter, WorkerFrame>>

\* updateAutoWhiteBalance() answering r: the four gains and the mode are read
\* from the device whenever the white balance is readable, whatever the mode.
updateAutoWhiteBalance(mode, r) ==
    [mode |-> mode, gains |-> r # "ERR_NO_READ_ACCESS"]

\* RunSequenceOnThread: updateAutoWhiteBalance(), whose result is the cycle's.
RunAwb(w) ==
    /\ wk[w].pc = "awb"
    /\ \E r \in AwbResults, mode \in AwbModes :
          Set(w, [wk[w] EXCEPT !.pc = "cond", !.nRet = r,
                               !.awb = updateAutoWhiteBalance(mode, r)])
    /\ UNCHANGED <<stop_, thdImageCounter_, run, imgWriter, WorkerFrame>>

\* The loop condition of svc without its test of IsStopped().
SvcCond_NoStopTest(w) ==
    /\ wk[w].pc = "cond"
    /\ IF wk[w].nRet = "DEVICE_OK"
       THEN /\ thdImageCounter_ < FrameCap
            /\ thdImageCounter_' = thdImageCounter_ + 1
            /\ Set(w, [wk[w] EXCEPT !.pc = IF thdImageCounter_ < numImages_ - 1
                                            THEN "wait" ELSE "chkstop",
                                     !.awb = NoAwb])
       ELSE /\ Set(w, [wk[w] EXCEPT !.pc = "chkstop",
                                     !.exitStopped = IsStopped, !.ins = NoInsert,
                                     !.awb = NoAwb])
            /\ UNCHANGED thdImageCounter_
    /\ UNCHANGED <<stop_, run, imgWriter, WorkerFrame>>

\* svc: the condition of the do-while loop, evaluated left to right; the
\* counter is read and incremented only when the first two conjuncts hold.
SvcCond(w) ==
    /\ wk[w].pc = "cond"
    /\ IF wk[w].nRet = "DEVICE_OK" /\ ~IsStopped
       THEN /\ thdImageCounter_ < FrameCap
            /\ thdImageCounter_' = thdImageCounter_ + 1
            /\ Set(w, [wk[w] EXCEPT !.pc = IF thdImageCounter_ < numImages_ - 1
                                            THEN "wait" ELSE "chkstop",
                                     !.awb = NoAwb])
       ELSE /\ Set(w, [wk[w] EXCEPT !.pc = "chkstop",
                                     !.exitStopped = IsStopped, !.ins = NoInsert,
                                     !.awb = NoAwb])
            /\ UNCHANGED thdImageCounter_
    /\ UNCHANGED <<stop_, run, imgWriter, WorkerFrame>>

\* svc without the peak_Acquisition_Stop after the loop.
SvcCheckStop_NoStopCommand(w) ==
    /\ wk[w].pc = "chkstop"
    /\ Set(w, [wk[w] EXCEPT !.pc = "setstop"])
    /\ Note(w, [run EXCEPT !.stopCmd = FALSE])
    /\ UNCHANGED <<stop_, thdImageCounter_, imgWriter, WorkerFrame>>

\* svc: after the loop, peak_Acquisition_Stop when the thread was stopped.
SvcCheckStop(w) ==
    /\ wk[w].pc = "chkstop"
    /\ Set(w, [wk[w] EXCEPT !.pc = "setstop"])
    /\ Note(w, [run EXCEPT !.stopCmd = IsStopped])
    /\ UNCHANGED <<stop_, thdImageCounter_, imgWriter, WorkerFrame>>

\* svc: stop_ = true, after the try block.
SvcSetStop(w) ==
    /\ wk[w].pc = "setstop"
    /\ stop_' = TRUE
    /\ Set(w, [wk[w] EXCEPT !.pc = "notify"])
    /\ UNCHANGED <<thdImageCounter_, run, imgWriter, WorkerFrame>>

\* svc: camera_->OnThreadExiting() (AcqFinished), then return nRet.
SvcNotify(w) ==
    /\ wk[w].pc = "notify"
    /\ Set(w, [wk[w] EXCEPT !.pc = "returned", !.fin = @ + 1, !.ret = wk[w].nRet])
    /\ UNCHANGED <<stop_, thdImageCounter_, run, imgWriter, WorkerFrame>>

\* --------------------------------------------------- foreground: SnapImage
\* The largest number of frame-wait timeouts SnapImage lets pass.
SnapTimeoutLimit == 99
\* Numbers of consecutive timeouts the device answers before its final answer.
SnapTimeouts == {0, 1, SnapTimeoutLimit, SnapTimeoutLimit + 1}

\* SnapImage giving up at the 99th timeout instead of the 100th.
SnapResult_EarlyTimeout(frOk, startOk, nTimeouts, final, xferOk, relOk) ==
    LET nRet0 == IF frOk THEN "DEVICE_OK" ELSE "ERR_NO_WRITE_ACCESS"
        nRet1 == IF xferOk THEN "DEVICE_OK" ELSE "DEVICE_UNSUPPORTED_DATA_FORMAT"
        d0 == {"FrameRate_Set", "Acquisition_Start"}
        d1 == d0 \cup {"WaitForFrame"}
    IN IF ~startOk THEN [ret |-> "ERR_ACQ_START", dev |-> d0, wrote |-> FALSE]
       ELSE IF nTimeouts >= SnapTimeoutLimit
            THEN [ret |-> "ERR_ACQ_TIMEOUT", dev |-> d1, wrote |-> FALSE]
       ELSE IF final = "ABORTED" THEN [ret |-> nRet0, dev |-> d1, wrote |-> FALSE]
       ELSE IF final # "SUCCESS" THEN [ret |-> "ERR_ACQ_FRAME", dev |-> d1, wrote |-> FALSE]
       ELSE IF ~relOk
            THEN [ret |-> "ERR_ACQ_RELEASE", dev |-> d1 \cup {"Frame_Release"}, wrote |-> TRUE]
       ELSE [ret |-> nRet1, dev |-> d1 \cup {"Frame_Release"}, wrote |-> TRUE]

\* CIDSPeak::SnapImage as a function of the device's answers: frOk the status
\* of peak_FrameRate_Set, startOk of peak_Acquisition_Start, nTimeouts the
\* timeouts before the answer final of WaitForFrame, xferOk the result of
\* transferBuffer, relOk of peak_Frame_Release.  Gives the value returned,
\* the device commands issued and whether img_ was written; the final return
\* gives nRet, last assigned by framerateSet or by transferBuffer.
SnapResult(frOk, startOk, nTimeouts, final, xferOk, relOk) ==
    LET nRet0 == IF frOk THEN "DEVICE_OK" ELSE "ERR_NO_WRITE_ACCESS"
        nRet1 == IF xferOk THEN "DEVICE_OK" ELSE "DEVICE_UNSUPPORTED_DATA_FORMAT"
        d0 == {"FrameRate_Set", "Acquisition_Start"}
        d1 == d0 \cup {"WaitForFrame"}
    IN IF ~startOk THEN [ret |-> "ERR_ACQ_START", dev |-> d0, wrote |-> FALSE]
       ELSE IF nTimeouts > SnapTimeoutLimit
            THEN [ret |-> "ERR_ACQ_TIMEOUT", dev |-> d1, wrote |-> FALSE]
       ELSE IF final = "ABORTED" THEN [ret |-> nRet0, dev |-> d1, wrote |-> FALSE]
       ELSE IF final # "SUCCESS" THEN [ret |-> "ERR_ACQ_FRAME", dev |-> d1, wrote |-> FALSE]
       ELSE IF ~relOk
            THEN [ret |-> "ERR_ACQ_RELEASE", dev |-> d1 \cup {"Frame_Release"}, wrote |-> TRUE]
       ELSE [ret |-> nRet1, dev |-> d1 \cup {"Frame_Release"}, wrote |-> TRUE]

\* The device's answers to one SnapImage call, <<frOk, startOk, nTimeouts, final,
\* xferOk, relOk>>; an answer the call never uses is left at one value.
SnapScenarios ==
    {q \in BOOLEAN \X BOOLEAN \X SnapTimeouts \X {"SUCCESS", "ABORTED", "ERROR"}
            \X BOOLEAN \X BOOLEAN :
        LET waited == q[2]
            answered == waited /\ q[3] <= SnapTimeoutLimit
            framed == answered /\ q[4] = "SUCCESS"
        IN /\ (~(answered /\ q[4] = "ABORTED") => q[1])
           /\ (~waited => q[3] = 0)
           /\ (~answered => q[4] = "SUCCESS")
           /\ (~framed => q[5] /\ q[6])
           /\ (~q[6] => q[5])}

\* CIDSPeak::SnapImage with the device answering q.
SnapImageCall(q) ==
    /\ fg = "idle"
    /\ LET r == SnapResult(q[1], q[2], q[3], q[4], q[5], q[6])
       IN /\ lastCall' = Call("snap", r.ret, r.dev, r.wrote)
          /\ imgWriter' = IF r.wrote THEN "snap" ELSE imgWriter
    /\ framerateCur_' = framerateSet(exposureCur_)
    /\ UNCHANGED <<exposureCur_, framerateMax_, devExposure, framerateMin_, exposureLimits, sequencer>>
    /\ UNCHANGED <<threadVars, seqVars, geomVars, lockVars, fg>>

SnapImage == \E q \in SnapScenarios : SnapImageCall(q)

\* ------------------------------------------------ foreground: buffer access
\* CIDSPeak::GetImageBuffer: the guard on imgPixelsLock_ is taken and the
\* readout wait begins.
GetImageBufferEnter ==
    /\ fg = "idle"
    /\ fg' = "getbuf"
    /\ UNCHANGED <<threadVars, seqVars, rateVars, geomVars, lockVars, imgWriter, lastCall>>

\* CIDSPeak::GetImageBuffer: the pointer to the pixels of img_ is returned and
\* the guard released.
GetImageBufferReturn ==
    /\ fg = "getbuf"
    /\ fg' = "idle"
    /\ lastCall' = Call("GetImageBuffer", "DEVICE_OK", {}, FALSE)
    /\ UNCHANGED <<threadVars, seqVars, rateVars, geomVars, lockVars, imgWriter>>

\* ---------------------------------------------------- foreground: geometry
\* CIDSPeak::SetROI; acc is whether peak_ROI_GetAccessStatus answers read-write.
SetROICall(op, x, y, xSize, ySize, acc, propOk, roiOk) ==
    /\ fg = "idle"
    /\ IF acc
       THEN LET r == SetROIApply(geom, x, y, xSize, ySize, propOk, roiOk)
            IN /\ geom' = r.g
               /\ lastCall' = Call(op, r.ret, r.dev, FALSE)
       ELSE /\ lastCall' = Call(op, "DEVICE_CAN_NOT_SET_PROPERTY", {}, FALSE)
            /\ UNCHANGED geom
    /\ UNCHANGED <<sensor, lockVars, threadVars, seqVars, rateVars, imgWriter, fg>>

\* A request <<x, y, xSize, ySize>> other than the reset to the full sensor.
NonReset(q) == ~(q[3] = 0 /\ q[4] = 0)

\* The camera's answers to one SetROI call with request q, <<acc, propOk,
\* roiOk>>; an answer the call never asks for is left at one value.
RoiAnswers(q) ==
    {a \in BOOLEAN \X BOOLEAN \X BOOLEAN :
        /\ (~a[1] => a[2])
        /\ (NonReset(q) => a[2])
        /\ (~(a[1] /\ a[2]) => a[3])}

SetROI ==
    \E q \in RoiRequests, acc \in BOOLEAN, propOk \in BOOLEAN, roiOk \in BOOLEAN :
        SetROICall("SetROI", q[1], q[2], q[3], q[4], acc, propOk, roiOk)

\* CIDSPeak::ClearROI: SetROI(0, 0, 0, 0).
ClearROI ==
    \E a \in RoiAnswers(<<0, 0, 0, 0>>) : SetROICall("ClearROI", 0, 0, 0, 0, a[1], a[2], a[3])

\* CIDSPeak::SetMultiROI
SetMultiROICall(rects) ==
    /\ fg = "idle"
    /\ geom' = SetMultiROIApply(geom, rects)
    /\ lastCall' = Call("SetMultiROI", "DEVICE_OK", {}, FALSE)
    /\ UNCHANGED <<sensor, lockVars, threadVars, seqVars, rateVars, imgWriter, fg>>

SetMultiROI == \E rects \in MultiRoiRequests : SetMultiROICall(rects)

\* ----------------------------------------------------- foreground: binning
\* CIDSPeak::OnBinning(pProp, MM::AfterSet) with the property set to binFactor.
OnBinningCall(binFactor) ==
    /\ fg = "idle"
    /\ IF IsCapturing
       THEN /\ lastCall' = Call("OnBinning", "DEVICE_CAMERA_BUSY_ACQUIRING", {}, FALSE)
            /\ UNCHANGED geom
       ELSE LET r == OnBinningApply(geom, binFactor)
            IN /\ geom' = r.g
               /\ lastCall' = Call("OnBinning", r.ret, {}, FALSE)
    /\ UNCHANGED <<sensor, lockVars, threadVars, seqVars, rateVars, imgWriter, fg>>

OnBinning == \E binFactor \in BinningFactors : OnBinningCall(binFactor)

\* CIDSPeak::SetBinning(binF): acc is whether peak_Binning_GetAccessStatus
\* answers read-write, setOk whether peak_Binning_Set succeeds, limits the
\* range peak_FrameRate_GetRange then reports.  SetProperty runs OnBinning
\* after binSize_ was assigned, and its result is overwritten.
SetBinningCall(binF, acc, setOk, limits) ==
    /\ fg = "idle"
    /\ IF ~acc
       THEN /\ lastCall' = Call("SetBinning", "ERR_NO_WRITE_ACCESS", {}, FALSE)
            /\ UNCHANGED <<geom, framerateMax_, framerateMin_>>
       ELSE IF ~setOk
       THEN /\ lastCall' = Call("SetBinning", "DEVICE_ERR", {"Binning_Set", "Binning_Set_refused"}, FALSE)
            /\ UNCHANGED <<geom, framerateMax_, framerateMin_>>
       ELSE LET g1 == [geom EXCEPT !.binSize_ = binF]
            IN /\ geom' = IF IsCapturing THEN g1 ELSE OnBinningApply(g1, binF).g
               /\ framerateMax_' = limits.max
               /\ framerateMin_' = limits.min
               /\ lastCall' = Call("SetBinning", "DEVICE_OK", {"Binning_Set"}, FALSE)
    /\ UNCHANGED <<exposureCur_, framerateCur_, devExposure, exposureLimits, sequencer>>
    /\ UNCHANGED <<sensor, lockVars, threadVars, seqVars, imgWriter, fg>>

SetBinning ==
    \E binF \in BinningFactors, acc \in BOOLEAN, setOk \in BOOLEAN, limits \in FrameRateLimits :
        SetBinningCall(binF, acc, setOk, limits)

\* ---------------------------------------------------- foreground: exposure
\* ceil(exp / exposureInc_) * exposureInc_
CeilToInc(exp, inc) == ((exp + inc - 1) \div inc) * inc

\* The value SetExposure(exp) hands to peak_ExposureTime_Set, in hundredths of
\* a microsecond.
ExposureToSet(exp) ==
    IF exp <= exposureLimits.min THEN exposureLimits.min * 1000
    ELSE IF exp >= exposureLimits.max THEN exposureLimits.max * 1000
    ELSE CeilToInc(exp, exposureLimits.inc) * 1000

\* CIDSPeak::SetExposure(exp): acc is whether peak_ExposureTime_GetAccessStatus
\* answers read-write, setOk whether the camera takes the value; exposureCur_
\* is then read back from the camera.
SetExposureCall(exp, acc, setOk) ==
    /\ fg = "idle"
    /\ IF acc
       THEN /\ devExposure' = IF setOk THEN ExposureToSet(exp) ELSE devExposure
            /\ exposureCur_' = devExposure'
            /\ lastCall' = Call("SetExposure", "DEVICE_OK", {"ExposureTime_Set"}, FALSE)
       ELSE /\ lastCall' = Call("SetExposure", "DEVICE_OK", {}, FALSE)
            /\ UNCHANGED <<exposureCur_, devExposure>>
    /\ UNCHANGED <<framerateCur_, framerateMax_, framerateMin_, exposureLimits, sequencer>>
    /\ UNCHANGED <<threadVars, seqVars, geomVars, lockVars, imgWriter, fg>>

SetExposure ==
    \E exp \in ExposureRequests, acc \in BOOLEAN, setOk \in BOOLEAN : SetExposureCall(exp, acc, setOk)

\* peak_ExposureTime_Set on a camera that refuses what lies outside its range.
DeviceTakes(v) == exposureLimits.min * 1000 <= v /\ v <= exposureLimits.max * 1000

\* SetExposure over the requests of the frame-rate specification.
SetExposureFine ==
    \E exp \in FineExposureRequests, acc \in BOOLEAN, setOk \in BOOLEAN :
        /\ setOk => DeviceTakes(ExposureToSet(exp))
        /\ SetExposureCall(exp, acc, setOk)

\* ------------------------------------------------ foreground: sequencer
\* The variables no exposure-sequence call touches.
SequenceFrame ==
    <<threadVars, seqVars, geomVars, lockVars, imgWriter, fg, exposureCur_, framerateCur_, framerateMax_,
      devExposure, framerateMin_, exposureLimits>>

\* GetExposure(): the value of the Exposure property, which Initialize and
\* SetExposure set to the camera's exposure time in milliseconds.
GetExposure == devExposure \div 1000

\* GetSequenceExposure(): the value returned and the cursor left.  A cursor
\* at or past the end of a non-empty list reads outside the vector: stray is
\* what that read gives.
GetSequenceExposureApply(s, stray) ==
    LET size == Len(s.exposureSequence_)
    IN IF size = 0
       THEN [ret |-> GetExposure, index |-> s.sequenceIndex_]
       ELSE [ret |-> IF s.sequenceIndex_ < size THEN s.exposureSequence_[s.sequenceIndex_ + 1]
                     ELSE stray,
             index |-> IF s.sequenceIndex_ + 1 >= size THEN 0 ELSE s.sequenceIndex_ + 1]

GetSequenceExposure ==
    /\ fg = "idle"
    /\ \E stray \in StrayReads :
          LET r == GetSequenceExposureApply(sequencer, stray)
          IN /\ sequencer' = [sequencer EXCEPT !.sequenceIndex_ = r.index]
             /\ lastCall' = Call("GetSequenceExposure", r.ret, {}, FALSE)
    /\ UNCHANGED SequenceFrame

\* The four exposure-sequence calls without their test of isSequenceable_.
SequenceCall_NoCheck(op, next) ==
    /\ fg = "idle"
    /\ lastCall' = Call(op, "DEVICE_OK", {}, FALSE)
    /\ sequencer' = next
    /\ UNCHANGED SequenceFrame

\* One of the four exposure-sequence calls: refused unless isSequenceable_,
\* else the sequencer becomes next.
SequenceCall(op, next) ==
    /\ fg = "idle"
    /\ IF ~sequencer.isSequenceable_
       THEN /\ lastCall' = Call(op, "DEVICE_UNSUPPORTED_COMMAND", {}, FALSE)
            /\ UNCHANGED sequencer
       ELSE /\ lastCall' = Call(op, "DEVICE_OK", {}, FALSE)
            /\ sequencer' = next
    /\ UNCHANGED SequenceFrame

StartExposureSequence ==
    SequenceCall("StartExposureSequence", [sequencer EXCEPT !.sequenceRunning_ = TRUE])

StopExposureSequence ==
    SequenceCall("StopExposureSequence",
                 [sequencer EXCEPT !.sequenceRunning_ = FALSE, !.sequenceIndex_ = 0])

ClearExposureSequence ==
    SequenceCall("ClearExposureSequence", [sequencer EXCEPT !.exposureSequence_ = <<>>])

\* AddToExposureSequence(exposureTime_ms), explored up to MaxSeqLen entries.
AddToExposureSequence ==
    /\ Len(sequencer.exposureSequence_) < MaxSeqLen
    /\ \E e \in SequenceExposures :
          SequenceCall("AddToExposureSequence",
                       [sequencer EXCEPT !.exposureSequence_ = Append(@, e)])

\* OnIsSequenceable(pProp, MM::AfterSet) with the property set to val.
OnIsSequenceable ==
    /\ fg = "idle"
    /\ \E val \in {"Yes", "No"} :
          sequencer' = [sequencer EXCEPT !.isSequenceable_ = (val = "Yes")]
    /\ lastCall' = Call("OnIsSequenceable", "DEVICE_OK", {}, FALSE)
    /\ UNCHANGED SequenceFrame

\* ------------------------------------------------------------------ system
Start ==
    \E q \in StartRequests, prepOk \in BOOLEAN :
        StartSequenceAcquisition(q[1], q[2], q[3], prepOk)

\* CIDSPeak::StartSequenceAcquisition(interval): a continuous run.
StartLive ==
    \E prepOk \in BOOLEAN : StartSequenceAcquisition(LONG_MAX, 0, FALSE, prepOk)

\* One step of thread w inside svc.
WorkerStep(w) ==
    \/ SvcBegin(w)
    \/ RunWait(w)
    \/ RunTransfer(w)
    \/ RunCopied(w)
    \/ RunInsert(w)
    \/ RunRelease(w)
    \/ RunAwb(w)
    \/ SvcCond(w)
    \/ SvcCheckStop(w)
    \/ SvcSetStop(w)
    \/ SvcNotify(w)

Worker == \E w \in Workers : WorkerStep(w)

\* The acquisition: starts, stops and the worker threads.
Next ==
    \/ Start
    \/ StopCall
    \/ StopReturn
    \/ Worker

Spec == Init /\ [][Next]_vars

\* Continuous acquisitions and stops under fair scheduling: every thread
\* inside svc keeps being scheduled, every device call of a cycle returns, and
\* thd_->wait() returns once the thread has.
NextLive ==
    \/ StartLive
    \/ StopCall
    \/ StopReturn
    \/ Worker

\* The foreground calls and the svc threads at the level of their guards,
\* every thread that can take a step infinitely often taking one.
NextLock ==
    \/ LockCall
    \/ LockSteps

SpecLock ==
    /\ Init
    /\ [][NextLock]_vars
    /\ \A t \in Threads : SF_vars(LockStep(t))

SpecFair ==
    /\ Init
    /\ [][NextLive]_vars
    /\ \A w \in Workers : WF_vars(WorkerStep(w))
    /\ WF_vars(StopReturn)

\* Single-shot capture beside a continuous acquisition.
NextSnap ==
    \/ StartLive
    \/ StopCall
    \/ StopReturn
    \/ Worker
    \/ SnapImage

SpecSnap == Init /\ [][NextSnap]_vars

\* Geometry calls beside a continuous acquisition.
NextRoi ==
    \/ StartLive
    \/ StopCall
    \/ StopReturn
    \/ Worker
    \/ SetROI
    \/ ClearROI
    \/ SetMultiROI

SpecRoi == Init /\ [][NextRoi]_vars

\* Buffer reads beside a continuous acquisition.
NextBuf ==
    \/ StartLive
    \/ StopCall
    \/ StopReturn
    \/ Worker
    \/ GetImageBufferEnter
    \/ GetImageBufferReturn

SpecBuf == Init /\ [][NextBuf]_vars

\* Exposure changes beside a continuous acquisition.
NextExp ==
    \/ StartLive
    \/ StopCall
    \/ StopReturn
    \/ Worker
    \/ SetExposure

SpecExp == Init /\ [][NextExp]_vars

\* StartSequenceAcquisition(1, interval_ms, false) over the intervals of the
\* frame-rate specification.
StartRate ==
    \E interval \in RateIntervals, prepOk \in BOOLEAN :
        StartSequenceAcquisition(1, interval, FALSE, prepOk)

\* Exposure and frame-rate changes by the foreground: starts at several
\* intervals, single shots, exposure and binning changes, on a camera
\* initialised at one of several exposures and exposure ranges, up to the
\* first step of a worker thread.
InitRate == InitFrom(SensorConfigs, ExposureRanges, InitialExposures)

NextRate ==
    \/ StartRate
    \/ SnapImage
    \/ SetBinning
    \/ SetExposureFine

SpecRate == InitRate /\ [][NextRate]_vars

\* Single shots at the exposures SetExposure leaves, on an idle camera.
NextShot ==
    \/ SnapImage
    \/ SetExposureFine

SpecShot == InitRate /\ [][NextShot]_vars

\* The exposure sequencer on an idle camera.
NextSeq ==
    \/ AddToExposureSequence
    \/ ClearExposureSequence
    \/ StartExposureSequence
    \/ StopExposureSequence
    \/ OnIsSequenceable
    \/ GetSequenceExposure

SpecSeq == Init /\ [][NextSeq]_vars

\* Binning changes beside a continuous acquisition: explored while img_ is
\* within MaxScale of the sensor, with a camera whose maximum frame rate does
\* not depend on the binning.
InScale ==
    /\ geom.imgW * MaxScale >= sensor.ccdX
    /\ geom.imgW <= sensor.ccdX * MaxScale

\* SetBinning on a camera that reports the same maximum frame rate afterwards.
SetBinningSameRate ==
    \E binF \in BinningFactors, acc \in BOOLEAN, setOk \in BOOLEAN :
        SetBinningCall(binF, acc, setOk, [min |-> framerateMin_, max |-> framerateMax_])

OnBinningInScale == InScale /\ OnBinning

SetBinningInScale == InScale /\ SetBinningSameRate

NextBin ==
    \/ StartLive
    \/ StopCall
    \/ StopReturn
    \/ Worker
    \/ OnBinningInScale
    \/ SetBinningInScale

SpecBin == Init /\ [][NextBin]_vars

\* The geometry calls on a stopped camera, over the sensors and requests of
\* the geometry sets.
InitGeom == InitWith(GeomSensorConfigs)

SetROIAny ==
    \E q \in GeomRoiRequests :
        \E a \in RoiAnswers(q) : SetROICall("SetROI", q[1], q[2], q[3], q[4], a[1], a[2], a[3])

SetMultiROIAny == \E rects \in GeomMultiRoiRequests : SetMultiROICall(rects)

NextGeom ==
    \/ SetROIAny
    \/ ClearROI
    \/ SetMultiROIAny
    \/ OnBinning
    \/ SetBinningSameRate

SpecGeom == InitGeom /\ [][NextGeom]_vars

\* ================================================================== claims
Busy == "DEVICE_CAMERA_BUSY_ACQUIRING"
\* svc has left its loop for good.
Leaving(w) == wk[w].pc \in {"chkstop", "setstop", "notify", "returned"}
\* The latest thread has returned from svc.
RunOver == latest # 0 /\ wk[latest].pc = "returned"

\* C1: a StartSequenceAcquisition made while the thread is not stopped returns
\* DEVICE_CAMERA_BUSY_ACQUIRING and changes nothing of the run: the requested
\* count, the interval, both frame counters, the sequence start time, the
\* frame rate, stopOnOverflow_ and the worker threads are as before the call.
C1_StartWhileRunningIsBusy ==
    [][(Start /\ ~stop_) =>
          /\ lastCall'.op = "start" /\ lastCall'.ret = Busy /\ lastCall'.dev = {}
          /\ UNCHANGED <<stop_, numImages_, intervalMs_, thdImageCounter_, latest, wk, run>>
          /\ UNCHANGED <<imageCounter_, sequenceStartTime_, stopOnOverflow_, framerateCur_>>]_vars

\* C1 witness: a start has just been refused while a worker was in its loop.
C1_Witness ==
    /\ lastCall.op = "start" /\ lastCall.ret = Busy /\ lastCall.running
    /\ latest # 0 /\ wk[latest].pc = "transfer" /\ run.cycles = 1

\* C2: a finite run of N frames that met no error and no stop has made exactly
\* N successful transfer+insert cycles when its thread has returned, the thread
\* is stopped and OnThreadExiting was called once.
C2_FiniteRunDeliversN ==
    (RunOver /\ run.n # LONG_MAX /\ ~run.stopReq /\ ~run.threw /\ wk[latest].ret = "DEVICE_OK")
        => (run.cycles = run.n /\ stop_ /\ wk[latest].fin = 1)

\* C3: a worker thread that has returned from svc, by whatever path, has called
\* OnThreadExiting exactly once.
C3_FinishedOncePerRun ==
    \A w \in Workers : wk[w].pc = "returned" => wk[w].fin = 1

\* C4: once the worker thread has ended on an error, with no stop requested,
\* the thread is stopped (IsCapturing() is false).
C4_ErrorExitStops ==
    (RunOver /\ ~run.stopReq /\ wk[latest].ret # "DEVICE_OK") => ~IsCapturing

\* C5: the worker leaves its loop on a frame-wait timeout only after 100
\* timeouts in a row, so a single timeout does not end the run.
C5_TimeoutIsRetried ==
    (latest # 0 /\ Leaving(latest) /\ ~run.threw /\ run.lastWait = "TIMEOUT")
        => run.timeouts > SnapTimeoutLimit

\* C6: a run that ended on frame-wait timeouts ended with ERR_ACQ_TIMEOUT, the
\* thread is stopped and OnThreadExiting was called once.
C6_TimeoutExit ==
    (RunOver /\ run.lastWait = "TIMEOUT" /\ ~run.threw)
        => (wk[latest].ret = "ERR_ACQ_TIMEOUT" /\ stop_ /\ wk[latest].fin = 1)

\* C7: when StopSequenceAcquisition has returned, no worker thread is still
\* inside svc.
C7_StopReturnsAfterExit ==
    (lastCall.op = "stop" /\ fg = "idle") => \A w \in Workers : ~Live(w)

\* C8: at most one worker thread is inside svc at any time.
C8_OneWorker ==
    Cardinality({w \in Workers : Live(w)}) <= 1

\* C9: a SnapImage made while the thread is not stopped is refused, sends the
\* device no command and does not write img_.
C9_SnapRefusedWhileRunning ==
    (lastCall.op = "snap" /\ lastCall.running)
        => (lastCall.ret = Busy /\ lastCall.dev = {} /\ ~lastCall.bufWrite)

\* C10: while the thread is not stopped, the ROI offset, the multi-ROI set and
\* the width and height of img_ do not change.
C10_GeometryFixedWhileRunning ==
    [][(~stop_ /\ ~stop_') =>
          /\ geom'.roiX_ = geom.roiX_ /\ geom'.roiY_ = geom.roiY_
          /\ geom'.multiROI = geom.multiROI
          /\ geom'.imgW = geom.imgW /\ geom'.imgH = geom.imgH]_vars

\* C11: a SetExposure made while the thread is not stopped writes no exposure
\* to the camera and leaves exposureCur_ as it was.
C11_ExposureFixedWhileRunning ==
    [][(SetExposure /\ ~stop_) =>
          (lastCall'.dev = {} /\ exposureCur_' = exposureCur_)]_vars

\* C12: a binning change made while the thread is not stopped, through the
\* Binning property handler or through SetBinning, returns
\* DEVICE_CAMERA_BUSY_ACQUIRING, sends the camera no binning and leaves
\* binSize_, the ROI offset, the multi-ROI rectangles and the size of img_ as
\* they were.
C12_BinningRefusedWhileRunning ==
    [][((OnBinning \/ SetBinning) /\ ~stop_) =>
          (lastCall'.ret = Busy /\ lastCall'.dev = {} /\ geom' = geom)]_vars

\* C13: no worker is copying a frame into img_ (inside transferBuffer) while
\* the foreground is inside GetImageBuffer holding imgPixelsLock_; the copy
\* and the foreground's access exclude each other through the lock.
C13_TransferExcludesBufferRead ==
    \A w \in Workers : wk[w].pc = "copy" => imgPixelsLockHolder = "none"

\* A SetROI call with request q, made with the ROI writable.
AcceptedSetROI(q) ==
    /\ lastCall'.op = "SetROI"
    /\ \E propOk \in BOOLEAN, roiOk \in BOOLEAN :
          SetROICall("SetROI", q[1], q[2], q[3], q[4], TRUE, propOk, roiOk)

\* C14: after every accepted SetROI(x, y, w, h) other than the reset, the
\* width and height of img_ are multiples of roiInc_, at least the minimum
\* sizes, and the rectangle from (roiX_, roiY_) lies inside the sensor.
C14_AppliedRoiWithinLimits ==
    [][\A q \in GeomRoiRequests :
          (NonReset(q) /\ AcceptedSetROI(q)) =>
             /\ geom'.imgW % sensor.inc = 0 /\ geom'.imgW >= sensor.minX
             /\ geom'.roiX_ + geom'.imgW <= sensor.ccdX
             /\ geom'.imgH % sensor.inc = 0 /\ geom'.imgH >= sensor.minY
             /\ geom'.roiY_ + geom'.imgH <= sensor.ccdY]_vars

\* C15 as stated: on the 512x512 sensor with increment 4 and minimum 16,
\* SetROI(10, 10, 18, 18) leaves GetROI reporting (8, 8, 16, 16).
C15_Original ==
    [][(sensor = Sensor512 /\ AcceptedSetROI(<<10, 10, 18, 18>>)) =>
          GetROI(geom') = [x |-> 8, y |-> 8, xSize |-> 16, ySize |-> 16]]_vars

\* C15 amended: on the 512x512 sensor with increment 4 and minimum 16,
\* SetROI(10, 10, 18, 18) leaves GetROI reporting (10, 10, 16, 16): the size
\* is cut to a multiple of the increment and the offset is kept.
C15_SizeSnappedOffsetKept ==
    [][(sensor = Sensor512 /\ AcceptedSetROI(<<10, 10, 18, 18>>)) =>
          GetROI(geom') = [x |-> 10, y |-> 10, xSize |-> 16, ySize |-> 16]]_vars

\* C15 witness: SetROI has returned on the 512x512 sensor with that rectangle.
C15_Witness ==
    /\ sensor = Sensor512 /\ lastCall.op = "SetROI" /\ lastCall.ret = "DEVICE_OK"
    /\ GetROI(geom) = [x |-> 10, y |-> 10, xSize |-> 16, ySize |-> 16]

\* C16: after an accepted SetROI whose request reaches past the sensor
\* (x + w or y + h beyond it), the applied rectangle lies inside the sensor.
C16_PastSensorIsPushedIn ==
    [][\A q \in GeomRoiRequests :
          (/\ NonReset(q) /\ AcceptedSetROI(q)
           /\ (q[1] + q[3] > sensor.ccdX \/ q[2] + q[4] > sensor.ccdY)) =>
             /\ geom'.roiX_ + geom'.imgW <= sensor.ccdX
             /\ geom'.roiY_ + geom'.imgH <= sensor.ccdY]_vars

\* A call of SetROI(0, 0, 0, 0) or of ClearROI, with whatever answers of the
\* camera.
ResetCall ==
    /\ lastCall'.op \in {"SetROI", "ClearROI"}
    /\ \E op \in {"SetROI", "ClearROI"}, a \in RoiAnswers(<<0, 0, 0, 0>>) :
          SetROICall(op, 0, 0, 0, 0, a[1], a[2], a[3])

\* C17 as stated: after a SetROI(0, 0, 0, 0) or ClearROI that returned
\* DEVICE_OK, GetROI reports offset (0, 0) and the size of the sensor, and no
\* multi-ROI is set, whatever the binning.
C17_Original ==
    [][(ResetCall /\ lastCall'.ret = "DEVICE_OK") =>
          /\ GetROI(geom') = [x |-> 0, y |-> 0, xSize |-> sensor.ccdX, ySize |-> sensor.ccdY]
          /\ geom'.multiROI = <<>>]_vars

\* C17 amended: after a SetROI(0, 0, 0, 0) or ClearROI that returned
\* DEVICE_OK, GetROI reports offset (0, 0) and the size of the sensor divided
\* (as integers) by the binning, and no multi-ROI is set.
C17_ResetGivesBinnedSensor ==
    [][(ResetCall /\ lastCall'.ret = "DEVICE_OK") =>
          /\ GetROI(geom') = [x |-> 0, y |-> 0, xSize |-> sensor.ccdX \div geom'.binSize_,
                              ySize |-> sensor.ccdY \div geom'.binSize_]
          /\ geom'.multiROI = <<>>]_vars

\* C17 witness: ClearROI has returned DEVICE_OK with binning 2 on the 8x8
\* sensor and GetROI reports (0, 0, 4, 4).
C17_Witness ==
    /\ lastCall.op = "ClearROI" /\ lastCall.ret = "DEVICE_OK"
    /\ sensor = Sensor8 /\ geom.binSize_ = 2
    /\ GetROI(geom) = [x |-> 0, y |-> 0, xSize |-> 4, ySize |-> 4]
    /\ geom.multiROI = <<>>

\* C18: a SetROI or ClearROI that is not applied (the ROI not writable, the
\* resize of img_ failing, or the camera refusing peak_ROI_Set) returns an
\* error and leaves the size of img_, the ROI offset and the multi-ROI set as
\* they were.
C18_RefusedRoiChangesNothing ==
    [][\A q \in GeomRoiRequests : \A a \in RoiAnswers(q) :
          (/\ lastCall'.op \in {"SetROI", "ClearROI"}
           /\ \E op \in {"SetROI", "ClearROI"} :
                 SetROICall(op, q[1], q[2], q[3], q[4], a[1], a[2], a[3])
           /\ ~(a[1] /\ a[2] /\ a[3])) =>
             /\ lastCall'.ret # "DEVICE_OK"
             /\ geom'.imgW = geom.imgW /\ geom'.imgH = geom.imgH
             /\ geom'.roiX_ = geom.roiX_ /\ geom'.roiY_ = geom.roiY_
             /\ geom'.multiROI = geom.multiROI]_vars

\* C19: in every state the rectangle GetROI reports lies inside the sensor.
C19_RoiInsideSensor ==
    /\ GetROI(geom).x + GetROI(geom).xSize <= sensor.ccdX
    /\ GetROI(geom).y + GetROI(geom).ySize <= sensor.ccdY

\* C20: right after SetMultiROI(rects), GetMultiROI with an output array of
\* any length from the number submitted upwards returns DEVICE_OK, exactly the
\* submitted rectangles in their order, and their number, whatever was set
\* before.
C20_MultiRoiRoundTrip ==
    [][\A rects \in GeomMultiRoiRequests :
          (lastCall'.op = "SetMultiROI" /\ SetMultiROICall(rects)) =>
             \A length \in Len(rects)..(Len(rects) + 1) :
                 GetMultiROI(geom', length) =
                     [ret |-> "DEVICE_OK", rects |-> rects, length |-> Len(rects)]]_vars

\* C20 witness: SetMultiROI has just stored two rectangles, GetMultiROI
\* returns those two and GetROI their bounding box.
C20_Witness ==
    /\ lastCall.op = "SetMultiROI"
    /\ GetMultiROI(geom, 2).rects =
           <<[x |-> 4, y |-> 3, w |-> 2, h |-> 3], [x |-> 1, y |-> 1, w |-> 2, h |-> 2]>>
    /\ GetROI(geom) = [x |-> 1, y |-> 1, xSize |-> 5, ySize |-> 5]

\* C21: right after SetMultiROI(rects) the buffer is as wide and as high as
\* the smallest box around the rectangles, max(x+w) - min(x) by
\* max(y+h) - min(y), and the stored offset is (min x, min y); around no
\* rectangle at all the box is empty.
C21_BufferIsBoundingBox ==
    [][\A rects \in GeomMultiRoiRequests :
          (lastCall'.op = "SetMultiROI" /\ SetMultiROICall(rects)) =>
             LET idx == 1..Len(rects)
                 Most(S) == CHOOSE m \in S : \A v \in S : v <= m
                 Least(S) == CHOOSE m \in S : \A v \in S : m <= v
             IN IF idx = {}
                THEN geom'.imgW = 0 /\ geom'.imgH = 0
                ELSE /\ geom'.imgW = Most({rects[i].x + rects[i].w : i \in idx})
                                       - Least({rects[i].x : i \in idx})
                     /\ geom'.imgH = Most({rects[i].y + rects[i].h : i \in idx})
                                       - Least({rects[i].y : i \in idx})
                     /\ geom'.roiX_ = Least({rects[i].x : i \in idx})
                     /\ geom'.roiY_ = Least({rects[i].y : i \in idx})]_vars

\* C22: right after a SetROI or ClearROI that returned DEVICE_OK,
\* IsMultiROISet() is false and GetMultiROICount reports 0, whatever
\* SetMultiROI stored before; and after SetMultiROI with no rectangle the
\* two report the same.
C22_SetRoiEndsMultiRoi ==
    [][/\ (lastCall'.op \in {"SetROI", "ClearROI"} /\ lastCall'.ret = "DEVICE_OK") =>
             ~IsMultiROISet(geom') /\ GetMultiROICount(geom') = 0
       /\ (lastCall'.op = "SetMultiROI" /\ SetMultiROICall(<<>>)) =>
             ~IsMultiROISet(geom') /\ GetMultiROICount(geom') = 0]_vars

\* C22 witness: SetROI(2, 2, 4, 4) has just succeeded on the 8 x 8 sensor and
\* no multi-ROI is reported.
C22_Witness ==
    /\ lastCall.op = "SetROI" /\ lastCall.ret = "DEVICE_OK"
    /\ ~IsMultiROISet(geom)
    /\ GetROI(geom) = [x |-> 2, y |-> 2, xSize |-> 4, ySize |-> 4]

\* C23: a binning change that was accepted (OnBinning or SetBinning returned
\* DEVICE_OK) from binning old to binning new replaces the ROI offset, every
\* multi-ROI rectangle's x, y, width and height and the buffer's width and
\* height by value / (new / old) rounded toward zero; with new = old they all
\* stay.
C23_BinningRescalesGeometry ==
    [][(lastCall'.op \in {"OnBinning", "SetBinning"} /\ lastCall'.ret = "DEVICE_OK") =>
          LET old == geom.binSize_
              new == geom'.binSize_
              Scaled(v) == ((v * old) \div new) % (2 ^ WordBits)
          IN /\ geom'.roiX_ = Scaled(geom.roiX_) /\ geom'.roiY_ = Scaled(geom.roiY_)
             /\ geom'.imgW = Scaled(geom.imgW) /\ geom'.imgH = Scaled(geom.imgH)
             /\ Len(geom'.multiROI) = Len(geom.multiROI)
             /\ \A i \in 1..Len(geom.multiROI) :
                   /\ geom'.multiROI[i].x = Scaled(geom.multiROI[i].x)
                   /\ geom'.multiROI[i].y = Scaled(geom.multiROI[i].y)
                   /\ geom'.multiROI[i].w = Scaled(geom.multiROI[i].w)
                   /\ geom'.multiROI[i].h = Scaled(geom.multiROI[i].h)]_vars

\* C24: in every state the stored exposure lies between the stored minimum
\* and maximum, exposureMin_ <= exposureCur_ <= exposureMax_, all three being
\* the numbers the driver compares and hands to framerateSet.
C24_ExposureWithinRange ==
    /\ exposureLimits.min <= exposureCur_
    /\ exposureCur_ <= exposureLimits.max

\* C25: in every state the stored frame rate lies between the stored minimum
\* and maximum, framerateMin_ <= framerateCur_ <= framerateMax_.
C25_FrameRateWithinRange ==
    /\ ~RatLess(framerateCur_, framerateMin_)
    /\ ~RatLess(framerateMax_, framerateCur_)

\* C26: SetExposure(exp) with the exposure feature writable, on a camera that
\* takes exactly the values inside its range, leaves the camera at exp
\* rounded up to a multiple of the increment and then clamped to
\* [minimum, maximum], and stores the value read back from the camera.
C26_ExposureRoundedThenClamped ==
    [][\A exp \in FineExposureRequests :
          (/\ lastCall'.op = "SetExposure"
           /\ SetExposureCall(exp, TRUE, DeviceTakes(ExposureToSet(exp)))) =>
              LET up == CHOOSE m \in exp..(exp + exposureLimits.inc) :
                            m % exposureLimits.inc = 0
                  clamped == IF up < exposureLimits.min THEN exposureLimits.min
                             ELSE IF up > exposureLimits.max THEN exposureLimits.max
                             ELSE up
              IN /\ devExposure' = clamped * 1000
                 /\ exposureCur_' = devExposure']_vars

C28_FrameReleasedBeforeCycleEnds ==
    /\ \A w \in Workers :
          wk[w].pc \notin {"transfer", "copy", "insert", "release"} => ~wk[w].held
    /\ (lastCall.op = "snap" /\ lastCall.bufWrite) => "Frame_Release" \in lastCall.dev

\* C29: GetSequenceExposure() with an empty list returns the current exposure
\* and leaves the cursor; with a list of n > 0 entries it returns the entry
\* at the cursor and sets the cursor to (cursor + 1) mod n.
C29_NextIsRoundRobin ==
    [][(lastCall'.op = "GetSequenceExposure" /\ GetSequenceExposure) =>
          LET list == sequencer.exposureSequence_
              cursor == sequencer.sequenceIndex_
              n == Len(list)
          IN IF n = 0
             THEN /\ lastCall'.ret = devExposure \div 1000
                  /\ sequencer'.sequenceIndex_ = cursor
             ELSE /\ cursor + 1 \in DOMAIN list
                  /\ lastCall'.ret = list[cursor + 1]
                  /\ sequencer'.sequenceIndex_ = (cursor + 1) % n]_vars

\* C30: in every state with a non-empty exposure list the cursor is below the
\* length of the list.
C30_CursorInsideList ==
    Len(sequencer.exposureSequence_) > 0 =>
        sequencer.sequenceIndex_ < Len(sequencer.exposureSequence_)

\* C31: with isSequenceable_ false, AddToExposureSequence,
\* ClearExposureSequence, StartExposureSequence and StopExposureSequence
\* return DEVICE_UNSUPPORTED_COMMAND and leave the exposure list, the cursor
\* and the sequence-running flag as they were.
C31_SequencerRefusedWhenDisabled ==
    [][(/\ lastCall'.op \in {"AddToExposureSequence", "ClearExposureSequence",
                            "StartExposureSequence", "StopExposureSequence"}
        /\ ~sequencer.isSequenceable_) =>
          /\ lastCall'.ret = "DEVICE_UNSUPPORTED_COMMAND"
          /\ sequencer'.exposureSequence_ = sequencer.exposureSequence_
          /\ sequencer'.sequenceIndex_ = sequencer.sequenceIndex_
          /\ sequencer'.sequenceRunning_ = sequencer.sequenceRunning_]_vars

\* C31 witness: StopExposureSequence has just been refused on a camera whose
\* capability was switched off with two exposures listed, the cursor at 1 and
\* the sequence running.
C31_Witness ==
    /\ lastCall.op = "StopExposureSequence"
    /\ lastCall.ret = "DEVICE_UNSUPPORTED_COMMAND"
    /\ ~sequencer.isSequenceable_
    /\ Len(sequencer.exposureSequence_) = 2
    /\ sequencer.sequenceIndex_ = 1
    /\ sequencer.sequenceRunning_

C33_AbortIsCleanExit ==
    [][/\ (latest' # 0 /\ wk'[latest'].pc = "returned" /\ run'.lastWait = "ABORTED"
              /\ ~run'.threw) =>
             (wk'[latest'].ret = "DEVICE_OK" /\ stop_' /\ wk'[latest'].fin = 1)
       /\ \A q \in SnapScenarios :
             (lastCall'.op = "snap" /\ q[1] /\ q[2] /\ q[3] < 100 /\ q[4] = "ABORTED"
                 /\ SnapImageCall(q)) =>
                lastCall'.ret = "DEVICE_OK"]_vars

C35_StoppedRunSentStopCommand ==
    (RunOver /\ stop_ /\ wk[latest].ret # "ERR_ACQ_START" /\ run.cycles < run.n)
        => run.stopCmd

\* C36: under fair scheduling, with every device call returning, a
\* StopSequenceAcquisition that found the thread running returns, with the
\* thread stopped; and once Stop() was called during a run no thread goes
\* from the loop condition into another cycle, so the cycle in progress is
\* the last.
C36_StopReturnsStopped ==
    /\ (fg = "stopWait") ~> (fg = "idle" /\ lastCall.op = "stop" /\ stop_)
    /\ [][run.stopReq => \A w \in Workers : ~(wk[w].pc = "cond" /\ wk'[w].pc = "wait")]_vars

\* C36 witness: StopSequenceAcquisition has returned from a run it
\* interrupted after one full cycle, and the thread is stopped.
C36_Witness ==
    /\ fg = "idle" /\ lastCall.op = "stop" /\ lastCall.running
    /\ stop_ /\ run.stopReq /\ run.cycles = 1 /\ run.n = LONG_MAX
    /\ wk[latest].pc = "returned"

\* C39: a call of InsertImage that met a full buffer with stopOnOverflow_ off
\* cleared the core's buffer, inserted once more and returned what the second
\* insertion answered; any other call inserted once, cleared nothing and
\* returned what the insertion answered; and a result other than DEVICE_OK
\* makes the cycle return DEVICE_ERR, after which no further cycle begins.
C39_OverflowRetriedOnce ==
    /\ [](\A w \in Workers :
            LET i == wk[w].ins
            IN i.first # "none" =>
                 /\ IF ~i.soo /\ i.first = "DEVICE_BUFFER_OVERFLOW"
                    THEN /\ i.core = <<"InsertImage", "ClearImageBuffer", "InsertImage">>
                         /\ i.ret = i.second
                    ELSE /\ i.core = <<"InsertImage">>
                         /\ i.ret = i.first
                 /\ (i.ret # "DEVICE_OK" => wk[w].pc = "cond" /\ wk[w].nRet = "DEVICE_ERR"))
    /\ [][\A w \in Workers :
            (wk[w].ins.first # "none" /\ wk[w].ins.ret # "DEVICE_OK")
                => wk'[w].pc \in {"cond", "chkstop"}]_vars

\* C39 witness: with stopOnOverflow_ off the first insertion of the second
\* cycle met a full buffer, the buffer was cleared and the second insertion
\* succeeded, so the cycle goes on to release the frame.
C39_Witness ==
    /\ latest # 0 /\ wk[latest].pc = "release" /\ run.cycles = 2
    /\ ~wk[latest].ins.soo /\ wk[latest].ins.first = "DEVICE_BUFFER_OVERFLOW"
    /\ wk[latest].ins.ret = "DEVICE_OK"
    /\ Len(wk[latest].ins.core) = 3

\* C40: a cycle read the gains from the device only if the white-balance mode
\* was not off, and a cycle whose wait, transfer, insertion and release all
\* succeeded is followed by the next cycle while the run is not stopped and
\* frames remain.
C40_GainsReadOnlyWhenAwbOn ==
    /\ [](\A w \in Workers : wk[w].awb.gains => wk[w].awb.mode # "OFF")
    /\ [][\A w \in Workers :
            (/\ wk[w].pc = "cond" /\ wk[w].awb.mode # "none"
             /\ ~IsStopped /\ thdImageCounter_ < numImages_ - 1)
                => wk'[w].pc \in {"cond", "wait"}]_vars

\* C37: every read and every write of stop_ is made by a thread that owns
\* stopLock_, and every read and write of suspend_ by one that owns
\* suspendLock_.
C37_FlagAccessUnderOwnLock ==
    /\ access.flag = "stop_" => "stopLock_" \in access.held
    /\ access.flag = "suspend_" => "suspendLock_" \in access.held

\* What the thread that is about to enter a guard is waiting for.
Waiting(t, l) == thr[t].prog # <<>> /\ Head(thr[t].prog) = Ins("acquire", l)

\* C38: the foreground thread calls activate() owning both stopLock_ and
\* suspendLock_, and every thread waiting to enter a guard of one of the three
\* locks eventually has entered it.
C38_NoLockDeadlock ==
    /\ []((/\ thr[ForegroundThread].prog # <<>>
           /\ Head(thr[ForegroundThread].prog).i = "activate")
              => /\ lockOwner["stopLock_"] = ForegroundThread
                 /\ lockOwner["suspendLock_"] = ForegroundThread)
    /\ \A t \in Threads : (\E l \in Locks : Waiting(t, l)) ~> (\A l \in Locks : ~Waiting(t, l))

\* C38 witness: Start() has activated a thread and still owns both locks,
\* while that thread waits for stopLock_ in IsStopped().
C38_Witness ==
    /\ lockOwner["stopLock_"] = ForegroundThread
    /\ lockOwner["suspendLock_"] = ForegroundThread
    /\ Head(thr[ForegroundThread].prog) = Ins("release", "suspendLock_")
    /\ Waiting(thr[ForegroundThread].target, "stopLock_")

====
